---- MODULE Spec2Model ----
(***************************************************************************)
(* ClickUp MCP server: the tool dispatcher (CallToolRequest handler) and   *)
(* the HTTP client (ClickUpClient) it drives.                              *)
(*                                                                         *)
(* Texts (URLs, messages, bodies) are sequences of tokens: a token is a    *)
(* run of characters that no conversion splits, or one single character    *)
(* that a conversion treats specially (a bracket, a blank, a newline).     *)
(***************************************************************************)
EXTENDS Integers, Sequences, FiniteSets, TLC

VARIABLES
  process,    \* "starting" | "connected" | "exited" | "crashed": the server process
  apiToken,   \* process.env.CLICKUP_API_TOKEN
  pc,         \* "idle" | "running" | "responded" | "listed": position of the handler
  call,       \* the invocation being handled: [name, hasArgs, args]
  sent,       \* slot -> the HTTP request fetch() was called with, this invocation
  got,        \* slot -> the reply the backend gave, NoReply while in flight
  responses,  \* the response envelopes returned for this invocation
  teamsRes,   \* getWorkspaceStructure: result of the teams fetch
  spacesRes,  \* team position -> result of that team's spaces fetch
  branch,     \* <<team position, space position>> -> state of the space's branch
  settled,    \* team position -> its space branches in the order they completed
  peer,       \* a second invocation handled meanwhile: [pc, call, sent, got, responses]
  afterError  \* the invocation handled before this one ended in an error response

vars ==
  <<process, apiToken, pc, call, sent, got, responses, teamsRes, spacesRes, branch,
    settled, peer, afterError>>

----------------------------------------------------------------------------
(* Bounds of the model *)

\* at most this many optional fields are supplied in one argument bag
MaxSupplied == 2

\* array arguments hold at most this many elements
MaxArr == 2

\* at most this many fetches of one getWorkspaceStructure call fail
MaxFailures == 2

----------------------------------------------------------------------------
(* JavaScript values *)

Undef == [t |-> "undefined"]
Null == [t |-> "null"]
Str(s) == [t |-> "string", s |-> s]
Num(n) == [t |-> "number", n |-> n]
Bool(b) == [t |-> "boolean", b |-> b]
Arr(a) == [t |-> "array", a |-> a]
Obj(m) == [t |-> "object", m |-> m]

\* JavaScript truthiness: `if (v)`, `!v`, `v || w`
Truthy(v) ==
  CASE v.t = "undefined" -> FALSE
    [] v.t = "null" -> FALSE
    [] v.t = "string" -> v.s # <<>>
    [] v.t = "number" -> v.n # 0
    [] v.t = "boolean" -> v.b
    [] OTHER -> TRUE

\* `v ?? d`
Coalesce(v, d) == IF v.t \in {"undefined", "null"} THEN d ELSE v

RECURSIVE JoinTexts(_, _)
JoinTexts(texts, sep) ==
  IF texts = <<>> THEN <<>>
  ELSE IF Len(texts) = 1 THEN texts[1]
  ELSE texts[1] \o sep \o JoinTexts(Tail(texts), sep)

\* String(v), also what a template literal `${v}` inserts
RECURSIVE ToStr(_)
ToStr(v) ==
  CASE v.t = "undefined" -> <<"undefined">>
    [] v.t = "null" -> <<"null">>
    [] v.t = "string" -> v.s
    [] v.t = "number" -> <<ToString(v.n)>>
    [] v.t = "boolean" -> IF v.b THEN <<"true">> ELSE <<"false">>
    [] v.t = "array" ->
         JoinTexts([i \in 1..Len(v.a) |->
                      IF v.a[i].t \in {"undefined", "null"} THEN <<>> ELSE ToStr(v.a[i])],
                   <<",">>)
    [] OTHER -> <<"[object Object]">>

----------------------------------------------------------------------------
(* Objects are sequences of <<key, value>> entries in insertion order *)

HasKey(obj, k) == \E i \in 1..Len(obj) : obj[i][1] = k

Get(obj, k) ==
  IF HasKey(obj, k)
  THEN obj[CHOOSE i \in 1..Len(obj) : obj[i][1] = k][2]
  ELSE Undef

\* obj[k] = v: an existing key keeps its position, a new key goes last
Set(obj, k, v) ==
  IF HasKey(obj, k)
  THEN [i \in 1..Len(obj) |-> IF obj[i][1] = k THEN <<k, v>> ELSE obj[i]]
  ELSE Append(obj, <<k, v>>)

Keys(obj) == {obj[i][1] : i \in 1..Len(obj)}

\* JSON.stringify drops the members whose value is undefined, at every depth
RECURSIVE Serialized(_)
Serialized(obj) ==
  LET kept == SelectSeq(obj, LAMBDA e : e[2] # Undef)
  IN [i \in 1..Len(kept) |->
        IF kept[i][2].t = "object"
        THEN <<kept[i][1], Obj(Serialized(kept[i][2].m))>>
        ELSE kept[i]]

----------------------------------------------------------------------------
(* ClickUpClient.request: the URL *)

\* application/x-www-form-urlencoded byte serializer of URLSearchParams
FormEncodeTokenRaw(tok) == tok

FormEncodeToken(tok) ==
  CASE tok = " " -> "+"
    [] tok = "[" -> "%5B"
    [] tok = "]" -> "%5D"
    [] tok = "," -> "%2C"
    [] OTHER -> tok

FormEncode(text) == [i \in 1..Len(text) |-> FormEncodeToken(text[i])]

\* one url.searchParams.append(name, value)
Pair(name, value) == [name |-> name, value |-> value]

\* the name an array element is appended under
ArrayKeyPlain(key) == <<key>>

ArrayKey(key) == <<key, "[", "]">>

\* a test of the value's truthiness: `if (value)`
IncludedIfTruthy(value) == Truthy(value)

\* if (value !== undefined && value !== null)
Included(value) == value.t \notin {"undefined", "null"}

RECURSIVE SearchParams(_)
SearchParams(entries) ==
  IF entries = <<>> THEN <<>>
  ELSE LET key == entries[1][1]
           value == entries[1][2]
           here ==
             IF ~Included(value) THEN <<>>
             ELSE IF value.t = "array"
               THEN [i \in 1..Len(value.a) |-> Pair(ArrayKey(key), ToStr(value.a[i]))]
               ELSE <<Pair(<<key>>, ToStr(value))>>
       IN here \o SearchParams(Tail(entries))

\* URLSearchParams.toString()
QueryString(pairs) ==
  JoinTexts([i \in 1..Len(pairs) |->
               FormEncode(pairs[i].name) \o <<"=">> \o FormEncode(pairs[i].value)],
            <<"&">>)

BaseUrl == <<"https://api.clickup.com/api/v2">>

\* url.toString()
UrlText(path, pairs) ==
  BaseUrl \o path \o (IF pairs = <<>> THEN <<>> ELSE <<"?">> \o QueryString(pairs))

NoQuery == <<>>
NoBody == [present |-> FALSE, members |-> <<>>]
Body(obj) == [present |-> TRUE, members |-> Serialized(obj)]

\* request(method, path, body, queryParams) up to the call of fetch()
Request(method, path, body, queryParams) ==
  LET pairs == SearchParams(queryParams)
  IN [method |-> method, path |-> path, params |-> pairs,
      url |-> UrlText(path, pairs), body |-> body]

----------------------------------------------------------------------------
(* ClickUpClient: the domain operations *)

TaskPath(taskId) == <<"/task/">> \o ToStr(taskId)

createTask(listId, task) ==
  Request("POST", <<"/list/">> \o ToStr(listId) \o <<"/task">>, Body(task), NoQuery)

getTask(taskId) == Request("GET", TaskPath(taskId), NoBody, NoQuery)

updateTask(taskId, updates) == Request("PUT", TaskPath(taskId), Body(updates), NoQuery)

deleteTask(taskId) == Request("DELETE", TaskPath(taskId), NoBody, NoQuery)

\* the filters sent as the caller gave them
listTasksUndefaulted(listId, params) ==
  Request("GET", <<"/list/">> \o ToStr(listId) \o <<"/task">>, NoBody, params)

listTasks(listId, params) ==
  LET a == Set(params, "archived", Coalesce(Get(params, "archived"), Bool(FALSE)))
      b == Set(a, "page", Coalesce(Get(params, "page"), Num(0)))
      c == Set(b, "include_closed", Coalesce(Get(params, "include_closed"), Bool(FALSE)))
  IN Request("GET", <<"/list/">> \o ToStr(listId) \o <<"/task">>, NoBody, c)

searchTasksUndefaulted(teamId, params) ==
  Request("GET", <<"/team/">> \o ToStr(teamId) \o <<"/task">>, NoBody, params)

searchTasks(teamId, params) ==
  LET a == Set(params, "page", Coalesce(Get(params, "page"), Num(0)))
      b == Set(a, "include_closed", Coalesce(Get(params, "include_closed"), Bool(FALSE)))
  IN Request("GET", <<"/team/">> \o ToStr(teamId) \o <<"/task">>, NoBody, b)

createComment(taskId, comment) ==
  Request("POST", TaskPath(taskId) \o <<"/comment">>, Body(comment), NoQuery)

getComments(taskId) == Request("GET", TaskPath(taskId) \o <<"/comment">>, NoBody, NoQuery)

addDependency(taskId, dependency) ==
  Request("POST", TaskPath(taskId) \o <<"/dependency">>, Body(dependency), NoQuery)

\* the direction sent as the body of the DELETE
deleteDependencyInBody(taskId, params) ==
  Request("DELETE", TaskPath(taskId) \o <<"/dependency">>, Body(params), NoQuery)

deleteDependency(taskId, params) ==
  Request("DELETE", TaskPath(taskId) \o <<"/dependency">>, NoBody, params)

getAuthorizedTeams == Request("GET", <<"/team">>, NoBody, NoQuery)

getSpaces(teamId) == Request("GET", <<"/team/", teamId, "/space">>, NoBody, NoQuery)

getLists(spaceId) == Request("GET", <<"/space/", spaceId, "/list">>, NoBody, NoQuery)

getFoldersRequest(spaceId) ==
  Request("GET", <<"/space/", spaceId, "/folder">>, NoBody, <<<<"archived", Bool(FALSE)>>>>)

----------------------------------------------------------------------------
(* JSON texts: response.json() and JSON.stringify(value, null, 2) *)

StringLex == {"\"err\"", "\"Task not found\"", "\"id\"", "\"name\"", "\"abc\"", "\"Fix\"",
              "\"teams\"", "\"spaces\"", "\"folders\"", "\"lists\"",
              "\"status\"", "\"open\"", "\"dependencies\""}

\* arrays of the backend's hierarchy and of a task, each one lexeme
ArrayLex == {"[teams]", "[spaces]", "[folders]", "[lists]", "[deps]"}

ValueLex == StringLex \cup ArrayLex

IsWs(tok) == tok \in {" ", "\n"}

JsonFail == [t |-> "fail"]
JsonObject(m) == [t |-> "object", m |-> m]
JsonScalar(lex) == [t |-> "scalar", lex |-> lex]

\* the members between the braces: key : value (, key : value)*
ParseMembers(toks) ==
  IF toks = <<>> THEN JsonObject(<<>>)
  ELSE IF Len(toks) % 4 # 3 THEN JsonFail
  ELSE LET n == (Len(toks) + 1) \div 4
           wellFormed ==
             \A j \in 0..(n - 1) :
               /\ toks[4 * j + 1] \in StringLex
               /\ toks[4 * j + 2] = ":"
               /\ toks[4 * j + 3] \in ValueLex
               /\ (j < n - 1 => toks[4 * j + 4] = ",")
       IN IF wellFormed
          THEN JsonObject([j \in 1..n |-> <<toks[4 * j - 3], toks[4 * j - 1]>>])
          ELSE JsonFail

\* response.json(): whitespace between tokens is insignificant
JSONParse(text) ==
  LET toks == SelectSeq(text, LAMBDA tok : ~IsWs(tok))
  IN IF toks = <<>> THEN JsonFail
     ELSE IF Len(toks) = 1
       THEN IF toks[1] \in ValueLex THEN JsonScalar(toks[1]) ELSE JsonFail
     ELSE IF toks[1] = "{" /\ toks[Len(toks)] = "}"
       THEN ParseMembers(SubSeq(toks, 2, Len(toks) - 1))
     ELSE JsonFail

RECURSIVE StringifyMembers(_)
StringifyMembers(m) ==
  IF m = <<>> THEN <<>>
  ELSE <<" ", " ", m[1][1], ":", " ", m[1][2]>>
         \o (IF Len(m) = 1 THEN <<>> ELSE <<",", "\n">> \o StringifyMembers(Tail(m)))

\* JSON.stringify(value, null, 2)
JSONStringify(v) ==
  IF v.t = "scalar" THEN <<v.lex>>
  ELSE IF v.m = <<>> THEN <<"{", "}">>
  ELSE <<"{", "\n">> \o StringifyMembers(v.m) \o <<"\n", "}">>

Member(v, key) ==
  IF v.t = "object" /\ \E i \in 1..Len(v.m) : v.m[i][1] = key
  THEN v.m[CHOOSE i \in 1..Len(v.m) : v.m[i][1] = key][2]
  ELSE "undefined"

----------------------------------------------------------------------------
(* The backend's replies *)

BodyCompact == <<"{", "\"err\"", ":", "\"Task not found\"", "}">>
BodyEmptyObject == <<"{", "}">>
BodyTask == <<"{", "\"id\"", ":", "\"abc\"", ",", "\"name\"", ":", "\"Fix\"", "}">>
BodyTaskLinked ==
  <<"{", "\"id\"", ":", "\"abc\"", ",", "\"name\"", ":", "\"Fix\"", ",",
    "\"status\"", ":", "\"open\"", ",", "\"dependencies\"", ":", "[deps]", "}">>
BodyHtml == <<"<html>">>
BodyEmpty == <<>>

\* what a success carries, and what an error carries
SuccessBodies == {BodyTask, BodyTaskLinked, BodyEmptyObject, BodyEmpty}
ErrorBodies == {BodyCompact, BodyHtml}

StatusText(status) ==
  CASE status = 200 -> "OK"
    [] status = 404 -> "Not Found"
    [] status = 429 -> "Too Many Requests"
    [] OTHER -> ""

NoReply == [kind |-> "none", status |-> 0, body |-> <<>>]
TransportFailure == [kind |-> "transport", status |-> 0, body |-> <<>>]
HttpReply(status, body) == [kind |-> "http", status |-> status, body |-> body]

Replies ==
  {TransportFailure}
    \cup {HttpReply(200, b) : b \in SuccessBodies \cup {BodyHtml}}
    \cup {HttpReply(st, b) : st \in {404, 429}, b \in ErrorBodies}

\* response.ok
ResponseOk(status) == status >= 200 /\ status <= 299

Thrown(message) == [ok |-> FALSE, message |-> message, data |-> JsonFail]
Returned(data) == [ok |-> TRUE, message |-> <<>>, data |-> data]

ApiErrorMessageVerbatim(reply, parsed) ==
  <<"ClickUp API error: ", ToString(reply.status), " ", StatusText(reply.status), "\n">>
    \o reply.body

ApiErrorMessage(reply, parsed) ==
  <<"ClickUp API error: ", ToString(reply.status), " ", StatusText(reply.status), "\n">>
    \o JSONStringify(parsed)

\* an error object: its class, its message, and the properties set on it besides
JsError(name, message, own) == [name |-> name, message |-> message, own |-> own]

\* an error that holds the response's data as properties of its own
RequestErrorStructured(reply) ==
  LET parsed == JSONParse(reply.body)
  IN IF reply.kind = "transport" THEN JsError("TypeError", <<"fetch failed">>, <<>>)
     ELSE IF parsed = JsonFail
       THEN JsError("SyntaxError", <<"Unexpected token in JSON">>, <<>>)
       ELSE JsError("ApiError", ApiErrorMessage(reply, parsed),
                    <<<<"status", Num(reply.status)>>,
                      <<"statusText", Str(<<StatusText(reply.status)>>)>>,
                      <<"body", parsed>>>>)

\* what request() throws for a reply that makes it fail: the rejection of fetch(), the
\* rejection of response.json(), or its own `new Error(...)`
RequestError(reply) ==
  LET parsed == JSONParse(reply.body)
  IN IF reply.kind = "transport" THEN JsError("TypeError", <<"fetch failed">>, <<>>)
     ELSE IF parsed = JsonFail
       THEN JsError("SyntaxError", <<"Unexpected token in JSON">>, <<>>)
       ELSE JsError("Error", ApiErrorMessage(reply, parsed), <<>>)

\* a request() that looks at the status first and takes an unreadable 2xx body for {}
RequestOutcomeStatusFirst(reply) ==
  IF reply.kind = "transport" THEN Thrown(RequestError(reply).message)
  ELSE IF ~ResponseOk(reply.status)
    THEN Thrown(ApiErrorMessageVerbatim(reply, JsonFail))
    ELSE IF JSONParse(reply.body) = JsonFail
      THEN Returned(JsonObject(<<>>))
      ELSE Returned(JSONParse(reply.body))

\* request() from the reply of fetch() on
RequestOutcome(reply) ==
  IF reply.kind = "transport" THEN Thrown(RequestError(reply).message)
  ELSE LET parsed == JSONParse(reply.body)
       IN IF parsed = JsonFail
          THEN Thrown(RequestError(reply).message)
          ELSE IF ~ResponseOk(reply.status)
            THEN Thrown(RequestError(reply).message)
            ELSE Returned(parsed)

----------------------------------------------------------------------------
(* The CallToolRequest handler: from the invocation to the first await *)

\* typedArgs.f
Arg(args, f) == IF f \in DOMAIN args THEN args[f] ELSE Undef

\* the object literal {f1: typedArgs.f1, f2: typedArgs.f2, ...}
Literal(args, fields) == [i \in 1..Len(fields) |-> <<fields[i], Arg(args, fields[i])>>]

Throw(message) == [kind |-> "throw", message |-> message]
Fetch(req) == [kind |-> "fetch", req |-> req]
Structure == [kind |-> "structure"]

\* reading a property of `undefined` arguments
TypeErrorMessage(field) ==
  <<"Cannot read properties of undefined (reading '", field, "')">>

CreateTaskFields ==
  <<"name", "description", "markdown_description", "assignees", "tags", "status",
    "priority", "due_date", "time_estimate", "start_date", "notify_all", "parent">>

CreateTaskHandler(args) ==
  Fetch(createTask(Arg(args, "list_id"), Literal(args, CreateTaskFields)))

UpdateScalarFields ==
  <<"name", "description", "markdown_description", "status", "priority", "due_date",
    "time_estimate", "archived">>

\* updates.f = typedArgs.f ?? null, for every field
RECURSIVE CopyAll(_, _, _)
CopyAll(updates, args, fields) ==
  IF fields = <<>> THEN updates
  ELSE CopyAll(Set(updates, Head(fields), Coalesce(Arg(args, Head(fields)), Null)),
               args, Tail(fields))

\* if (typedArgs.f !== undefined) updates.f = typedArgs.f, field by field
RECURSIVE CopyDefined(_, _, _)
CopyDefined(updates, args, fields) ==
  IF fields = <<>> THEN updates
  ELSE LET f == Head(fields)
           next == IF Arg(args, f) # Undef THEN Set(updates, f, Arg(args, f)) ELSE updates
       IN CopyDefined(next, args, Tail(fields))

UpdateScalarsNulled(args) == CopyAll(<<>>, args, UpdateScalarFields)

UpdateScalars(args) == CopyDefined(<<>>, args, UpdateScalarFields)

\* updates[key] = {add, rem} without the guards
CollapseUnguarded(updates, key, add, rem) ==
  Set(updates, key, Obj(<<<<"add", add>>, <<"rem", rem>>>>))

\* if (add || rem) { updates[key] = {}; if (add) ...add = add; if (rem) ...rem = rem }
Collapse(updates, key, add, rem) ==
  IF Truthy(add) \/ Truthy(rem)
  THEN Set(updates, key,
           Obj((IF Truthy(add) THEN <<<<"add", add>>>> ELSE <<>>)
               \o (IF Truthy(rem) THEN <<<<"rem", rem>>>> ELSE <<>>)))
  ELSE updates

UpdateObject(args) ==
  LET scalars == UpdateScalars(args)
      withAssignees ==
        Collapse(scalars, "assignees", Arg(args, "assignees_add"), Arg(args, "assignees_rem"))
  IN Collapse(withAssignees, "tags", Arg(args, "tags_add"), Arg(args, "tags_rem"))

UpdateTaskHandler(args) == Fetch(updateTask(Arg(args, "task_id"), UpdateObject(args)))

ListTasksFields ==
  <<"page", "archived", "include_closed", "assignees", "statuses", "tags",
    "due_date_gt", "due_date_lt">>

ListTasksHandler(args) ==
  Fetch(listTasks(Arg(args, "list_id"), Literal(args, ListTasksFields)))

SearchTasksFields ==
  <<"query", "page", "include_closed", "assignees", "statuses", "tags",
    "due_date_gt", "due_date_lt">>

\* the check forgotten
IdMissingNever(id) == FALSE

\* if (!typedArgs.x_id) throw ...
IdMissing(id) == ~Truthy(id)

\* the case without `searchParams.x_ids = [typedArgs.x_id]`
ScopedSearchUnscoped(args, idField, paramKey, scopeName) ==
  IF IdMissing(Arg(args, idField))
  THEN Throw(<<idField, " is required for ", scopeName, " scope">>)
  ELSE Fetch(searchTasks(Arg(args, "team_id"), Literal(args, SearchTasksFields)))

\* one case of switch (typedArgs.scope) below 'workspace'
ScopedSearch(args, idField, paramKey, scopeName) ==
  IF IdMissing(Arg(args, idField))
  THEN Throw(<<idField, " is required for ", scopeName, " scope">>)
  ELSE Fetch(searchTasks(Arg(args, "team_id"),
                         Set(Literal(args, SearchTasksFields), paramKey,
                             Arr(<<Arg(args, idField)>>))))

\* a handler that narrows the search by every identifier the caller gave
SearchTasksHandlerAllIds(args) ==
  LET withSpace ==
        IF Truthy(Arg(args, "space_id"))
        THEN Set(Literal(args, SearchTasksFields), "space_ids", Arr(<<Arg(args, "space_id")>>))
        ELSE Literal(args, SearchTasksFields)
      withFolder ==
        IF Truthy(Arg(args, "folder_id"))
        THEN Set(withSpace, "folder_ids", Arr(<<Arg(args, "folder_id")>>))
        ELSE withSpace
      withList ==
        IF Truthy(Arg(args, "list_id"))
        THEN Set(withFolder, "list_ids", Arr(<<Arg(args, "list_id")>>))
        ELSE withFolder
  IN Fetch(searchTasks(Arg(args, "team_id"), withList))

SearchTasksHandler(args) ==
  LET scope == Arg(args, "scope")
  IN CASE scope = Str(<<"workspace">>) ->
            IF IdMissing(Arg(args, "team_id"))
            THEN Throw(<<"team_id", " is required for ", "workspace", " scope">>)
            ELSE Fetch(searchTasks(Arg(args, "team_id"), Literal(args, SearchTasksFields)))
       [] scope = Str(<<"space">>) -> ScopedSearch(args, "space_id", "space_ids", "space")
       [] scope = Str(<<"folder">>) -> ScopedSearch(args, "folder_id", "folder_ids", "folder")
       [] scope = Str(<<"list">>) -> ScopedSearch(args, "list_id", "list_ids", "list")
       [] OTHER -> Throw(<<"Invalid scope: ">> \o ToStr(scope))

AddCommentHandler(args) ==
  Fetch(createComment(Arg(args, "task_id"),
                      Literal(args, <<"comment_text", "assignee", "notify_all">>)))

DependencyFields == <<"depends_on", "dependency_of">>

AddDependencyHandler(args) ==
  Fetch(addDependency(Arg(args, "task_id"), Literal(args, DependencyFields)))

RemoveDependencyHandler(args) ==
  Fetch(deleteDependency(Arg(args, "task_id"), Literal(args, DependencyFields)))

\* a switch (name) without the case of clickup_list_dependencies
ArgumentToolsShort ==
  {"clickup_create_task", "clickup_get_task", "clickup_update_task", "clickup_delete_task",
   "clickup_list_tasks", "clickup_search_tasks", "clickup_add_comment",
   "clickup_list_comments", "clickup_add_dependency", "clickup_remove_dependency"}

\* the cases of switch (name) that read the arguments
ArgumentTools ==
  {"clickup_create_task", "clickup_get_task", "clickup_update_task", "clickup_delete_task",
   "clickup_list_tasks", "clickup_search_tasks", "clickup_add_comment",
   "clickup_list_comments", "clickup_add_dependency", "clickup_remove_dependency",
   "clickup_list_dependencies"}

\* every `case '...'` label of switch (name)
DispatcherCases == ArgumentTools \cup {"clickup_get_workspace_structure"}

\* the first property of typedArgs each case reads
FirstRead(name) ==
  CASE name \in {"clickup_create_task", "clickup_list_tasks"} -> "list_id"
    [] name = "clickup_update_task" -> "name"
    [] name = "clickup_search_tasks" -> "query"
    [] OTHER -> "task_id"

\* a default case that takes the name for a task to fetch
DefaultCaseFetching(name) == Fetch(getTask(Str(<<name>>)))

\* default: throw new Error(`Unknown tool: ${name}`)
DefaultCase(name) == Throw(<<"Unknown tool: ", name>>)

\* switch (name), up to the first await or throw
Dispatch(name, hasArgs, args) ==
  IF name = "clickup_get_workspace_structure" THEN Structure
  ELSE IF name \notin ArgumentTools THEN DefaultCase(name)
  ELSE IF ~hasArgs THEN Throw(TypeErrorMessage(FirstRead(name)))
  ELSE CASE name = "clickup_create_task" -> CreateTaskHandler(args)
         [] name = "clickup_get_task" -> Fetch(getTask(Arg(args, "task_id")))
         [] name = "clickup_update_task" -> UpdateTaskHandler(args)
         [] name = "clickup_delete_task" -> Fetch(deleteTask(Arg(args, "task_id")))
         [] name = "clickup_list_tasks" -> ListTasksHandler(args)
         [] name = "clickup_search_tasks" -> SearchTasksHandler(args)
         [] name = "clickup_add_comment" -> AddCommentHandler(args)
         [] name = "clickup_list_comments" -> Fetch(getComments(Arg(args, "task_id")))
         [] name = "clickup_add_dependency" -> AddDependencyHandler(args)
         [] name = "clickup_remove_dependency" -> RemoveDependencyHandler(args)
         [] OTHER -> Fetch(getTask(Arg(args, "task_id")))

----------------------------------------------------------------------------
(* The CallToolRequest handler: from the reply to the response *)

NoTree == <<>>

\* the catch block without `isError: true`
ErrorResponseUnflagged(message) ==
  [isError |-> FALSE, text |-> <<"Error: ">> \o message, structure |-> NoTree]

ErrorResponse(message) ==
  [isError |-> TRUE, text |-> <<"Error: ">> \o message, structure |-> NoTree]

TextResponse(text) == [isError |-> FALSE, text |-> text, structure |-> NoTree]

\* the fetched task returned whole
DependenciesOfWhole(task) == task

\* {task_id: task.id, task_name: task.name, dependencies: task.dependencies || [], ...}
DependenciesOf(task) ==
  LET id == Member(task, "\"id\"")
      name == Member(task, "\"name\"")
      deps == Member(task, "\"dependencies\"")
      linked == Member(task, "\"linked_tasks\"")
  IN JsonObject(
       (IF id = "undefined" THEN <<>> ELSE <<<<"\"task_id\"", id>>>>)
       \o (IF name = "undefined" THEN <<>> ELSE <<<<"\"task_name\"", name>>>>)
       \o <<<<"\"dependencies\"", IF deps = "undefined" THEN "[]" ELSE deps>>>>
       \o <<<<"\"linked_tasks\"", IF linked = "undefined" THEN "[]" ELSE linked>>>>)

SuccessText(name, args, data) ==
  CASE name = "clickup_delete_task" ->
         <<"Task ">> \o ToStr(Arg(args, "task_id")) \o <<" has been deleted successfully.">>
    [] name = "clickup_remove_dependency" ->
         <<"Dependency removed successfully from task ">> \o ToStr(Arg(args, "task_id"))
    [] name = "clickup_list_dependencies" -> JSONStringify(DependenciesOf(data))
    [] OTHER -> JSONStringify(data)

\* the try block after `await clickup.x(...)` and the catch block
ResponseAfter(name, args, outcome) ==
  IF outcome.ok
  THEN TextResponse(SuccessText(name, args, outcome.data))
  ELSE ErrorResponse(outcome.message)

----------------------------------------------------------------------------
(* getWorkspaceStructure: the backend's hierarchy and the assembly *)

BackendTeams == <<"T1", "T2">>

BackendSpaces(teamId) ==
  CASE teamId = "T1" -> <<"S1", "S2">>
    [] teamId = "T2" -> <<"S3">>
    [] OTHER -> <<>>

Folder(id, hasLists, lists) == [id |-> id, hasLists |-> hasLists, lists |-> lists]

\* each folder embeds its lists; `lists` is optional in the folder type
BackendFolders(spaceId) ==
  CASE spaceId = "S1" -> <<Folder("F1", TRUE, <<"L1">>)>>
    [] spaceId = "S2" -> <<Folder("F3", FALSE, <<>>)>>
    [] spaceId = "S3" -> <<Folder("F2", TRUE, <<"L4">>)>>
    [] OTHER -> <<>>

BackendLists(spaceId) ==
  CASE spaceId = "S1" -> <<"L1", "L2">>
    [] spaceId = "S2" -> <<"L3">>
    [] spaceId = "S3" -> <<"L5", "L4">>
    [] OTHER -> <<>>

\* the 2xx body of a hierarchy fetch: {"<field>": [...]}
HierarchyBody(field) == <<"{", "\"" \o field \o "\"", ":", "[" \o field \o "]", "}">>

HierarchyReplies(field) ==
  {TransportFailure, HttpReply(404, BodyCompact), HttpReply(200, HierarchyBody(field))}

\* const { field } = await this.request(...)
Destructured(outcome, field) == Member(outcome.data, "\"" \o field \o "\"") = "[" \o field \o "]"

\* folders.map(folder => ({id, name, lists: (folder.lists || []).map(...)}))
FoldersWithLists(folders) ==
  [i \in 1..Len(folders) |->
     [id |-> folders[i].id,
      lists |-> IF folders[i].hasLists THEN folders[i].lists ELSE <<>>]]

\* new Set(folders.flatMap(folder => (folder.lists || []).map(list => list.id)))
ListsInFolders(folders) ==
  UNION {IF folders[i].hasLists
         THEN {folders[i].lists[j] : j \in 1..Len(folders[i].lists)}
         ELSE {} : i \in 1..Len(folders)}

\* every list of the space kept, whether a folder holds it or not
FolderlessListsAll(allSpaceLists, folders) == allSpaceLists

\* allSpaceLists.filter(list => !listsInFolders.has(list.id))
FolderlessLists(allSpaceLists, folders) ==
  SelectSeq(allSpaceLists, LAMBDA l : l \notin ListsInFolders(folders))

\* getFolders propagating what request() throws
FoldersOrThrow(outcome, spaceId) ==
  IF outcome.ok THEN [ok |-> TRUE, folders |-> BackendFolders(spaceId)]
  ELSE [ok |-> FALSE, folders |-> <<>>]

\* getFolders: try { return await this.request(...) } catch { return {folders: []} }
FoldersOrEmpty(outcome, spaceId) ==
  IF outcome.ok THEN [ok |-> TRUE, folders |-> BackendFolders(spaceId)]
  ELSE [ok |-> TRUE, folders |-> <<>>]

\* a space assembled from its folders alone
SpaceResultWithoutLists(spaceId, folders, allSpaceLists) ==
  [id |-> spaceId, folders |-> FoldersWithLists(folders), lists |-> <<>>]

\* return {...space, folders: foldersWithLists, lists: folderlessLists}
SpaceResult(spaceId, folders, allSpaceLists) ==
  [id |-> spaceId,
   folders |-> FoldersWithLists(folders),
   lists |-> FolderlessLists(allSpaceLists, folders)]

NoResult == [id |-> "", folders |-> <<>>, lists |-> <<>>]

\* the spaces of a team in the order their branches completed
SpacesAsSettled(teams, br, t) ==
  [k \in 1..Len(settled'[t]) |-> br[t][settled'[t][k]].result]

\* Promise.all keeps the positions of the mapped array
SpacesInOrder(teams, br, t) == [s \in 1..Len(br[t]) |-> br[t][s].result]

Assemble(teams, br) ==
  [t \in 1..Len(teams) |-> [id |-> teams[t], spaces |-> SpacesInOrder(teams, br, t)]]

\* both Promise.all have every promise fulfilled
AllFulfilled(teams, spRes, br) ==
  \A t \in 1..Len(teams) :
    /\ spRes[t].st = "ok"
    /\ \A s \in 1..Len(br[t]) : br[t][s].st = "done"

StructureResponse(tree) ==
  [isError |-> FALSE,
   text |-> JSONStringify(JsonObject(<<<<"\"teams\"", "[teams]">>>>)),
   structure |-> tree]

----------------------------------------------------------------------------
(* The invocations a caller can make *)

EmptyBag == [f \in {} |-> Undef]

\* the empty array, a singleton and the array of MaxArr elements, each running
\* through `items` in order
ArraysOf(items) ==
  {Arr([k \in 1..n |-> items[((k - 1) % Len(items)) + 1]]) : n \in {0, 1, MaxArr}}

FieldValues(f) ==
  CASE f = "name" -> {Str(<<"Test", " ", "Task">>), Null}
    [] f \in {"description", "markdown_description", "status", "parent"} -> {Str(<<"x">>)}
    [] f \in {"priority", "assignee"} -> {Num(1)}
    [] f \in {"due_date", "start_date", "due_date_lt"} -> {Num(1700000000)}
    [] f = "due_date_gt" -> {Num(1700000000), Null}
    [] f = "time_estimate" -> {Num(3600000)}
    [] f \in {"archived", "include_closed"} -> {Bool(FALSE), Bool(TRUE)}
    [] f = "notify_all" -> {Bool(TRUE)}
    [] f = "page" -> {Num(0), Num(2)}
    [] f = "assignees" -> ArraysOf(<<Num(123), Num(456)>>)
    [] f = "tags" -> ArraysOf(<<Str(<<"urgent">>)>>)
    [] f = "statuses" -> ArraysOf(<<Str(<<"to", " ", "do">>)>>)
    [] f \in {"assignees_add", "assignees_rem"} -> ArraysOf(<<Num(123)>>)
    [] f \in {"tags_add", "tags_rem"} -> ArraysOf(<<Str(<<"bug">>)>>)
    [] f = "team_id" -> {Str(<<"T1">>), Str(<<>>)}
    [] f = "space_id" -> {Str(<<"S1">>), Str(<<>>)}
    [] f = "folder_id" -> {Str(<<"F1">>)}
    [] f = "list_id" -> {Str(<<"901234567">>)}
    [] f = "task_id" -> {Str(<<"abc">>)}
    [] f \in {"depends_on", "dependency_of"} -> {Str(<<"dep1">>)}
    [] f = "query" -> {Str(<<"bug">>)}
    [] f = "comment_text" -> {Str(<<"done">>)}
    [] f = "scope" -> {Str(<<"workspace">>), Str(<<"space">>), Str(<<"folder">>),
                       Str(<<"list">>), Str(<<"team">>)}
    [] OTHER -> {}

\* the `required` of each inputSchema
RequiredFields(name) ==
  CASE name = "clickup_create_task" -> {"list_id", "name"}
    [] name = "clickup_list_tasks" -> {"list_id"}
    [] name = "clickup_search_tasks" -> {"query", "scope"}
    [] name = "clickup_add_comment" -> {"task_id", "comment_text"}
    [] name = "clickup_get_workspace_structure" -> {}
    [] OTHER -> {"task_id"}

\* the other `properties` of each inputSchema
OptionalFields(name) ==
  CASE name = "clickup_create_task" ->
         {"description", "markdown_description", "assignees", "tags", "status", "priority",
          "due_date", "time_estimate", "start_date", "notify_all", "parent"}
    [] name = "clickup_update_task" ->
         {"name", "description", "markdown_description", "status", "priority", "due_date",
          "time_estimate", "archived", "assignees_add", "assignees_rem", "tags_add",
          "tags_rem"}
    [] name = "clickup_list_tasks" ->
         {"page", "archived", "include_closed", "assignees", "statuses", "tags",
          "due_date_gt", "due_date_lt"}
    [] name = "clickup_search_tasks" ->
         {"team_id", "space_id", "folder_id", "list_id", "page", "include_closed",
          "assignees", "statuses", "tags", "due_date_gt", "due_date_lt"}
    [] name = "clickup_add_comment" -> {"assignee", "notify_all"}
    [] name \in {"clickup_add_dependency", "clickup_remove_dependency"} ->
         {"depends_on", "dependency_of"}
    [] OTHER -> {}

\* the optional properties that callers of the model supply: one of each group of
\* properties that the handler treats alike
SuppliedFields(name) ==
  CASE name = "clickup_create_task" ->
         {"description", "assignees", "tags", "priority", "notify_all", "parent"}
    [] name = "clickup_update_task" ->
         {"name", "status", "priority", "archived", "assignees_add", "assignees_rem",
          "tags_add", "tags_rem"}
    [] name = "clickup_list_tasks" ->
         {"page", "archived", "include_closed", "assignees", "statuses", "due_date_gt"}
    [] name = "clickup_search_tasks" ->
         {"team_id", "space_id", "folder_id", "list_id", "page", "include_closed",
          "assignees"}
    [] OTHER -> OptionalFields(name)

RECURSIVE BagsOver(_)
BagsOver(fields) ==
  IF fields = {} THEN {EmptyBag}
  ELSE LET f == CHOOSE f \in fields : TRUE
       IN {(f :> v) @@ rest : v \in FieldValues(f), rest \in BagsOver(fields \ {f})}

ArgBags(name) ==
  LET some == {S \in SUBSET SuppliedFields(name) : Cardinality(S) <= MaxSupplied}
  IN {req @@ opt : req \in BagsOver(RequiredFields(name)),
                   opt \in UNION {BagsOver(S) : S \in some}}

\* the names of TOOLS, in its order
TOOLS ==
  <<"clickup_create_task", "clickup_get_task", "clickup_update_task", "clickup_delete_task",
    "clickup_list_tasks", "clickup_search_tasks", "clickup_add_comment",
    "clickup_list_comments", "clickup_add_dependency", "clickup_remove_dependency",
    "clickup_list_dependencies", "clickup_get_workspace_structure">>

CatalogTools == {TOOLS[i] : i \in DOMAIN TOOLS}

\* the tools of the README's Tool Reference tables
ReadmeTools ==
  {"clickup_create_task", "clickup_get_task", "clickup_update_task", "clickup_delete_task",
   "clickup_list_tasks", "clickup_search_tasks", "clickup_add_comment",
   "clickup_list_comments", "clickup_add_dependency", "clickup_remove_dependency",
   "clickup_list_dependencies", "clickup_get_workspace_structure"}

ToolNames == CatalogTools \cup {"clickup_archive_task"}

Invocation(name, hasArgs, args) == [name |-> name, hasArgs |-> hasArgs, args |-> args]

NoCall == Invocation("", FALSE, EmptyBag)

Invocations ==
  {Invocation(name, FALSE, EmptyBag) : name \in ToolNames}
    \cup UNION {{Invocation(name, TRUE, args) : args \in ArgBags(name)} : name \in ToolNames}

----------------------------------------------------------------------------
(* Startup: the module's top level and main() *)

\* what the environment may hold for CLICKUP_API_TOKEN
Tokens == {Undef, Str(<<>>), Str(<<"pk_1">>)}

\* a top level without the check of the token
TokenMissingNever(token) == FALSE

\* if (!apiToken) { console.error(...); process.exit(1) }
TokenMissing(token) == ~Truthy(token)

\* new ClickUpClient(apiToken)
Constructor(token) ==
  IF ~Truthy(token) THEN Throw(<<"ClickUp API token is required">>)
  ELSE [kind |-> "client", apiToken |-> token]

\* the ListTools handler: { tools: TOOLS }
ListToolsResponse == [isError |-> FALSE, text |-> TOOLS, structure |-> NoTree]

----------------------------------------------------------------------------
(* The state machine *)

\* no second invocation
NoPeer == [pc |-> "idle", call |-> NoCall, sent |-> <<>>, got |-> <<>>, responses |-> <<>>]

\* what a step of the handler leaves alone
Elsewhere == UNCHANGED <<process, apiToken, peer, afterError>>

\* the top level runs: the token check, the client, then main() connects the server
Start ==
  /\ process = "starting"
  /\ process' = IF TokenMissing(apiToken) THEN "exited"
                ELSE IF Constructor(apiToken).kind = "throw" THEN "crashed"
                ELSE "connected"
  /\ UNCHANGED <<apiToken, pc, call, sent, got, responses, teamsRes, spacesRes, branch,
                 settled, peer, afterError>>

\* server.setRequestHandler(ListToolsRequestSchema, ...)
ListTools ==
  /\ process = "connected"
  /\ pc = "idle"
  /\ pc' = "listed"
  /\ responses' = <<ListToolsResponse>>
  /\ UNCHANGED <<call, sent, got, teamsRes, spacesRes, branch, settled>>
  /\ Elsewhere

\* what awaits a reply: the tool's single request, or one fetch of the hierarchy
ToolSlot == <<"tool", 0, 0>>
TeamsSlot == <<"teams", 0, 0>>
SpacesSlot(t) == <<"spaces", t, 0>>
FoldersSlot(t, s) == <<"folders", t, s>>
ListsSlot(t, s) == <<"lists", t, s>>

Init ==
  /\ process = "starting"
  /\ apiToken \in Tokens
  /\ peer = NoPeer
  /\ afterError = FALSE
  /\ pc = "idle"
  /\ call = NoCall
  /\ sent = <<>>
  /\ got = <<>>
  /\ responses = <<>>
  /\ teamsRes = <<>>
  /\ spacesRes = <<>>
  /\ branch = <<>>
  /\ settled = <<>>

Awaiting(slot) == slot \in DOMAIN got /\ got[slot] = NoReply

Replied(slot, reply) == [got EXCEPT ![slot] = reply]

Failed(reply) == reply.kind # "none" /\ ~RequestOutcome(reply).ok

\* the backend may fail this fetch too
MayReply(reply) ==
  Failed(reply) => Cardinality({sl \in DOMAIN got : Failed(got[sl])}) < MaxFailures

\* a handler that answers once for every failure it sees
RespondEach(r) ==
  /\ responses' = Append(responses, r)
  /\ pc' = "responded"

\* the handler returns: a promise settles once, the first rejection wins
Respond(r) ==
  /\ responses' = IF responses = <<>> THEN <<r>> ELSE responses
  /\ pc' = "responded"

\* server.setRequestHandler(CallToolRequestSchema, ...) runs to its first await
Invoke(c) ==
  /\ process = "connected"
  /\ pc = "idle"
  /\ call' = c
  /\ LET d == Dispatch(c.name, c.hasArgs, c.args)
     IN IF d.kind = "throw"
        THEN /\ Respond(ErrorResponse(d.message))
             /\ UNCHANGED <<sent, got>>
        ELSE /\ sent' = IF d.kind = "fetch" THEN ToolSlot :> d.req
                        ELSE TeamsSlot :> getAuthorizedTeams
             /\ got' = IF d.kind = "fetch" THEN ToolSlot :> NoReply
                       ELSE TeamsSlot :> NoReply
             /\ pc' = "running"
             /\ UNCHANGED responses
  /\ UNCHANGED <<teamsRes, spacesRes, branch, settled>>
  /\ Elsewhere

\* a client that sends the request once more when the fetch failed
ToolReplyRetrying(reply) ==
  /\ Awaiting(ToolSlot)
  /\ IF Failed(reply)
     THEN /\ sent' = (<<"tool", 1, 0>> :> sent[ToolSlot]) @@ sent
          /\ got' = (<<"tool", 1, 0>> :> NoReply) @@ Replied(ToolSlot, reply)
          /\ UNCHANGED <<pc, responses>>
     ELSE /\ got' = Replied(ToolSlot, reply)
          /\ Respond(ResponseAfter(call.name, call.args, RequestOutcome(reply)))
          /\ UNCHANGED sent
  /\ UNCHANGED <<call, teamsRes, spacesRes, branch, settled>>
  /\ Elsewhere

\* the fetch of a single-request tool settles
ToolReply(reply) ==
  /\ Awaiting(ToolSlot)
  /\ got' = Replied(ToolSlot, reply)
  /\ Respond(ResponseAfter(call.name, call.args, RequestOutcome(reply)))
  /\ UNCHANGED <<call, sent, teamsRes, spacesRes, branch, settled>>
  /\ Elsewhere

\* getAuthorizedTeams settles; teams.map starts one getSpaces per team
TeamsReply(reply) ==
  /\ Awaiting(TeamsSlot)
  /\ MayReply(reply)
  /\ LET outcome == RequestOutcome(reply)
         n == Len(BackendTeams)
     IN IF outcome.ok /\ Destructured(outcome, "teams")
        THEN /\ teamsRes' = BackendTeams
             /\ spacesRes' = [t \in 1..n |-> [st |-> "pending", spaces |-> <<>>]]
             /\ branch' = [t \in 1..n |-> <<>>]
             /\ settled' = [t \in 1..n |-> <<>>]
             /\ sent' = [sl \in {SpacesSlot(t) : t \in 1..n} |->
                           getSpaces(BackendTeams[sl[2]])] @@ sent
             /\ got' = [sl \in {SpacesSlot(t) : t \in 1..n} |-> NoReply]
                         @@ Replied(TeamsSlot, reply)
             /\ UNCHANGED <<pc, responses>>
        ELSE /\ Respond(ErrorResponse(IF outcome.ok THEN TypeErrorMessage("map")
                                      ELSE outcome.message))
             /\ got' = Replied(TeamsSlot, reply)
             /\ UNCHANGED <<sent, teamsRes, spacesRes, branch, settled>>
  /\ UNCHANGED call
  /\ Elsewhere

\* a spaces.map that starts getFolders and getLists of every space together
SpacesReplyParallel(t, reply) ==
  /\ Awaiting(SpacesSlot(t))
  /\ MayReply(reply)
  /\ LET outcome == RequestOutcome(reply)
         spaces == BackendSpaces(teamsRes[t])
         n == Len(spaces)
     IN IF outcome.ok /\ Destructured(outcome, "spaces")
        THEN /\ spacesRes' = [spacesRes EXCEPT ![t] = [st |-> "ok", spaces |-> spaces]]
             /\ branch' = [branch EXCEPT ![t] =
                             [s \in 1..n |-> [st |-> "folders", folders |-> <<>>,
                                              result |-> NoResult]]]
             /\ sent' = [sl \in {FoldersSlot(t, s) : s \in 1..n} |->
                           getFoldersRequest(spaces[sl[3]])]
                         @@ [sl \in {ListsSlot(t, s) : s \in 1..n} |-> getLists(spaces[sl[3]])]
                         @@ sent
             /\ got' = [sl \in {FoldersSlot(t, s) : s \in 1..n}
                                \cup {ListsSlot(t, s) : s \in 1..n} |-> NoReply]
                         @@ Replied(SpacesSlot(t), reply)
             /\ UNCHANGED <<pc, responses>>
        ELSE /\ spacesRes' = [spacesRes EXCEPT ![t].st = "failed"]
             /\ Respond(ErrorResponse(IF outcome.ok THEN TypeErrorMessage("map")
                                      ELSE outcome.message))
             /\ got' = Replied(SpacesSlot(t), reply)
             /\ UNCHANGED <<sent, branch>>
  /\ UNCHANGED <<call, teamsRes, settled>>
  /\ Elsewhere

\* getSpaces(team.id) settles; spaces.map starts one getFolders per space
SpacesReply(t, reply) ==
  /\ Awaiting(SpacesSlot(t))
  /\ MayReply(reply)
  /\ LET outcome == RequestOutcome(reply)
         spaces == BackendSpaces(teamsRes[t])
         n == Len(spaces)
     IN IF outcome.ok /\ Destructured(outcome, "spaces")
        THEN /\ spacesRes' = [spacesRes EXCEPT ![t] = [st |-> "ok", spaces |-> spaces]]
             /\ branch' = [branch EXCEPT ![t] =
                             [s \in 1..n |-> [st |-> "folders", folders |-> <<>>,
                                              result |-> NoResult]]]
             /\ sent' = [sl \in {FoldersSlot(t, s) : s \in 1..n} |->
                           getFoldersRequest(spaces[sl[3]])] @@ sent
             /\ got' = [sl \in {FoldersSlot(t, s) : s \in 1..n} |-> NoReply]
                         @@ Replied(SpacesSlot(t), reply)
             /\ UNCHANGED <<pc, responses>>
        ELSE /\ spacesRes' = [spacesRes EXCEPT ![t].st = "failed"]
             /\ Respond(ErrorResponse(IF outcome.ok THEN TypeErrorMessage("map")
                                      ELSE outcome.message))
             /\ got' = Replied(SpacesSlot(t), reply)
             /\ UNCHANGED <<sent, branch>>
  /\ UNCHANGED <<call, teamsRes, settled>>
  /\ Elsewhere

\* getFolders(space.id) settles; the branch goes on to getLists(space.id)
FoldersReply(t, s, reply) ==
  /\ Awaiting(FoldersSlot(t, s))
  /\ MayReply(reply)
  /\ LET spaceId == spacesRes[t].spaces[s]
         res == FoldersOrEmpty(RequestOutcome(reply), spaceId)
     IN IF res.ok
        THEN /\ branch' = [branch EXCEPT ![t][s].st = "lists", ![t][s].folders = res.folders]
             /\ sent' = (ListsSlot(t, s) :> getLists(spaceId)) @@ sent
             /\ got' = (ListsSlot(t, s) :> NoReply) @@ Replied(FoldersSlot(t, s), reply)
             /\ UNCHANGED <<pc, responses>>
        ELSE /\ branch' = [branch EXCEPT ![t][s].st = "failed"]
             /\ Respond(ErrorResponse(RequestOutcome(reply).message))
             /\ got' = Replied(FoldersSlot(t, s), reply)
             /\ UNCHANGED sent
  /\ UNCHANGED <<call, teamsRes, spacesRes, settled>>
  /\ Elsewhere

\* getLists(space.id) settles; the branch completes, and with the last one the call
ListsReply(t, s, reply) ==
  /\ Awaiting(ListsSlot(t, s))
  /\ MayReply(reply)
  /\ got' = Replied(ListsSlot(t, s), reply)
  /\ LET outcome == RequestOutcome(reply)
         spaceId == spacesRes[t].spaces[s]
     IN IF outcome.ok /\ Destructured(outcome, "lists")
        THEN /\ branch' = [branch EXCEPT
                             ![t][s].st = "done",
                             ![t][s].result =
                               SpaceResult(spaceId, branch[t][s].folders,
                                           BackendLists(spaceId))]
             /\ settled' = [settled EXCEPT ![t] = Append(@, s)]
             /\ IF AllFulfilled(teamsRes, spacesRes, branch') /\ responses = <<>>
                THEN Respond(StructureResponse(Assemble(teamsRes, branch')))
                ELSE UNCHANGED <<pc, responses>>
        ELSE /\ branch' = [branch EXCEPT ![t][s].st = "failed"]
             /\ Respond(ErrorResponse(IF outcome.ok THEN TypeErrorMessage("filter")
                                      ELSE outcome.message))
             /\ UNCHANGED settled
  /\ UNCHANGED <<call, sent, teamsRes, spacesRes>>
  /\ Elsewhere

\* the invocation is over and nothing of it is in flight: the next one may come
Return ==
  /\ pc \in {"responded", "listed"}
  /\ \A sl \in DOMAIN got : got[sl] # NoReply
  /\ pc' = "idle"
  /\ call' = NoCall
  /\ sent' = <<>>
  /\ got' = <<>>
  /\ responses' = <<>>
  /\ teamsRes' = <<>>
  /\ spacesRes' = <<>>
  /\ branch' = <<>>
  /\ settled' = <<>>
  /\ afterError' = (responses # <<>> /\ responses[1].isError)
  /\ UNCHANGED <<process, apiToken, peer>>

Positions(seq) == 1..Len(seq)

Next ==
  \/ Start
  \/ ListTools
  \/ \E c \in Invocations : Invoke(c)
  \/ \E reply \in Replies : ToolReply(reply)
  \/ \E reply \in HierarchyReplies("teams") : TeamsReply(reply)
  \/ \E t \in Positions(teamsRes), reply \in HierarchyReplies("spaces") :
       SpacesReply(t, reply)
  \/ \E t \in Positions(branch) : \E s \in Positions(branch[t]) :
       \E reply \in HierarchyReplies("folders") : FoldersReply(t, s, reply)
  \/ \E t \in Positions(branch) : \E s \in Positions(branch[t]) :
       \E reply \in HierarchyReplies("lists") : ListsReply(t, s, reply)
  \/ Return

Spec == Init /\ [][Next]_vars

\* one of the fetches in flight settles
Settle ==
  \/ \E reply \in Replies : ToolReply(reply)
  \/ \E reply \in HierarchyReplies("teams") : TeamsReply(reply)
  \/ \E t \in Positions(teamsRes), reply \in HierarchyReplies("spaces") :
       SpacesReply(t, reply)
  \/ \E t \in Positions(branch) : \E s \in Positions(branch[t]) :
       \E reply \in HierarchyReplies("folders") : FoldersReply(t, s, reply)
  \/ \E t \in Positions(branch) : \E s \in Positions(branch[t]) :
       \E reply \in HierarchyReplies("lists") : ListsReply(t, s, reply)

\* every fetch() settles in the end
SpecLive == Spec /\ WF_vars(Settle)

----------------------------------------------------------------------------
(* Two invocations at once: the handler is entered again while one awaits *)

\* the invocations of the first caller
PairInvocations ==
  {c \in Invocations :
     c.hasArgs /\ c.name \in {"clickup_delete_task", "clickup_remove_dependency",
                              "clickup_get_workspace_structure"}}

\* the invocations of the second caller
PeerInvocations ==
  {Invocation("clickup_delete_task", TRUE, "task_id" :> Str(<<"xyz">>)),
   Invocation("clickup_archive_task", TRUE, "task_id" :> Str(<<"xyz">>))}

MainUnchanged ==
  UNCHANGED <<process, apiToken, pc, call, sent, got, responses, teamsRes, spacesRes,
              branch, settled, afterError>>

\* a handler that keeps the arguments in one place for all its invocations
PeerInvokeSharing(c) ==
  /\ process = "connected"
  /\ peer.pc = "idle"
  /\ LET d == Dispatch(c.name, c.hasArgs, c.args)
     IN peer' = IF d.kind = "throw"
                THEN [pc |-> "responded", call |-> c, sent |-> <<>>, got |-> <<>>,
                      responses |-> <<ErrorResponse(d.message)>>]
                ELSE [pc |-> "running", call |-> c, sent |-> ToolSlot :> d.req,
                      got |-> ToolSlot :> NoReply, responses |-> <<>>]
  /\ call' = IF pc = "idle" THEN call ELSE [call EXCEPT !.args = c.args]
  /\ UNCHANGED <<process, apiToken, pc, sent, got, responses, teamsRes, spacesRes,
                 branch, settled, afterError>>

\* the handler runs to its first await for the second invocation: `name`, `args` and
\* `typedArgs` are its own
PeerInvoke(c) ==
  /\ process = "connected"
  /\ peer.pc = "idle"
  /\ LET d == Dispatch(c.name, c.hasArgs, c.args)
     IN peer' = IF d.kind = "throw"
                THEN [pc |-> "responded", call |-> c, sent |-> <<>>, got |-> <<>>,
                      responses |-> <<ErrorResponse(d.message)>>]
                ELSE [pc |-> "running", call |-> c, sent |-> ToolSlot :> d.req,
                      got |-> ToolSlot :> NoReply, responses |-> <<>>]
  /\ MainUnchanged

\* the fetch of the second invocation settles
PeerReply(reply) ==
  /\ peer.pc = "running"
  /\ peer' = [peer EXCEPT
                !.pc = "responded",
                !.got = ToolSlot :> reply,
                !.responses =
                  <<ResponseAfter(peer.call.name, peer.call.args, RequestOutcome(reply))>>]
  /\ MainUnchanged

PeerReturn ==
  /\ peer.pc = "responded"
  /\ peer' = NoPeer
  /\ MainUnchanged

NextPair ==
  \/ Start
  \/ \E c \in PairInvocations : Invoke(c)
  \/ \E reply \in Replies : ToolReply(reply)
  \/ \E reply \in HierarchyReplies("teams") : TeamsReply(reply)
  \/ \E t \in Positions(teamsRes), reply \in HierarchyReplies("spaces") :
       SpacesReply(t, reply)
  \/ \E t \in Positions(branch) : \E s \in Positions(branch[t]) :
       \E reply \in HierarchyReplies("folders") : FoldersReply(t, s, reply)
  \/ \E t \in Positions(branch) : \E s \in Positions(branch[t]) :
       \E reply \in HierarchyReplies("lists") : ListsReply(t, s, reply)
  \/ Return
  \/ \E c \in PeerInvocations : PeerInvoke(c)
  \/ \E reply \in Replies : PeerReply(reply)
  \/ PeerReturn

SpecPair == Init /\ [][NextPair]_vars

----------------------------------------------------------------------------
(* Vocabulary of the properties *)

\* `sub` occurs in `text` as a contiguous run
Contains(text, sub) ==
  \E k \in 0..(Len(text) - Len(sub)) : SubSeq(text, k + 1, k + Len(sub)) = sub

Supplied(f) == call.hasArgs /\ f \in DOMAIN call.args

Handling(name) == pc # "idle" /\ call.name = name /\ call.hasArgs

\* the values appended under `name`, in the order of the query
ValuesNamed(req, name) ==
  LET hits == SelectSeq(req.params, LAMBDA q : q.name = name)
  IN [k \in 1..Len(hits) |-> hits[k].value]

\* the array-valued filters the dispatcher hands to listTasks / searchTasks
ArrayFilters == {"assignees", "statuses", "tags"}

Filtering == Handling("clickup_list_tasks") \/ Handling("clickup_search_tasks")

ElementTexts(f) == [k \in 1..Len(call.args[f].a) |-> ToStr(call.args[f].a[k])]

AnErrorResponse == Len(responses) = 1 /\ responses[1].isError

----------------------------------------------------------------------------
(* C1: array-valued query parameters *)

----------------------------------------------------------------------------
(* C2: the bracket suffix in the generated URL *)

\* the text `key[]=e1&key[]=e2...` with the brackets written as given
BracketRun(f, open, close, elements) ==
  JoinTexts([k \in 1..Len(elements) |-> <<f, open, close, "=">> \o FormEncode(elements[k])],
            <<"&">>)

\* the scope arrays the search handler builds: key, and the argument it holds
ScopeArrays ==
  {<<"space", "space_ids", "space_id">>, <<"folder", "folder_ids", "folder_id">>,
   <<"list", "list_ids", "list_id">>}

ScopeRequested(sc) ==
  /\ Handling("clickup_search_tasks")
  /\ call.args["scope"] = Str(<<sc[1]>>)
  /\ DOMAIN sent = {ToolSlot}

----------------------------------------------------------------------------
(* C3, C4: the identifiers clickup_search_tasks requires *)

ScopeIs(sc) == Handling("clickup_search_tasks") /\ call.args["scope"] = Str(<<sc>>)

\* the identifier the scope itself selects
OwnId(sc) == IF sc = "workspace" THEN "team_id" ELSE sc \o "_id"

\* C3: a search whose scope's own identifier is absent (space_id for space, folder_id
\* for folder, list_id for list, team_id for workspace) returns an error response and
\* issues no HTTP request.
C3_MissingScopeIdRejected ==
  \A sc \in {"workspace", "space", "folder", "list"} :
    (ScopeIs(sc) /\ ~Supplied(OwnId(sc))) => DOMAIN sent = {} /\ AnErrorResponse

C3_Witness ==
  /\ ScopeIs("space")
  /\ ~Supplied("space_id")
  /\ Supplied("team_id")
  /\ pc = "responded"
  /\ responses[1].text = <<"Error: ", "space_id", " is required for ", "space", " scope">>

\* C4 as stated: with scope space, folder or list and the scope's own identifier
\* present, an absent team_id makes the dispatch fail before any HTTP request.
C4_TeamIdRequired ==
  \A sc \in {"space", "folder", "list"} :
    (ScopeIs(sc) /\ Supplied(OwnId(sc)) /\ Truthy(call.args[OwnId(sc)])
       /\ ~Supplied("team_id"))
      => DOMAIN sent = {} /\ AnErrorResponse

----------------------------------------------------------------------------
(* C5: what a non-2xx response tells the caller *)

\* the reply is a failure of the fetch: no response, or a status outside 200..299
FetchFailed(r) == r.kind = "transport" \/ (r.kind = "http" /\ (r.status < 200 \/ r.status > 299))

\* a single-request tool got a non-2xx response
ToolGotNon2xx(i) == i = ToolSlot /\ got[i].kind = "http" /\ FetchFailed(got[i])

\* the bodies that are JSON texts, as JSON.stringify(value, null, 2) writes them
Reindented(body) ==
  CASE body = <<"{", "\"err\"", ":", "\"Task not found\"", "}">> ->
         <<"{", "\n", " ", " ", "\"err\"", ":", " ", "\"Task not found\"", "\n", "}">>
    [] body = <<"{", "}">> -> <<"{", "}">>
    [] body = <<"{", "\"id\"", ":", "\"abc\"", ",", "\"name\"", ":", "\"Fix\"", "}">> ->
         <<"{", "\n", " ", " ", "\"id\"", ":", " ", "\"abc\"", ",", "\n",
           " ", " ", "\"name\"", ":", " ", "\"Fix\"", "\n", "}">>
    [] body = <<"{", "\"id\"", ":", "\"abc\"", ",", "\"name\"", ":", "\"Fix\"", ",",
                "\"status\"", ":", "\"open\"", ",", "\"dependencies\"", ":", "[deps]", "}">> ->
         <<"{", "\n", " ", " ", "\"id\"", ":", " ", "\"abc\"", ",", "\n",
           " ", " ", "\"name\"", ":", " ", "\"Fix\"", ",", "\n",
           " ", " ", "\"status\"", ":", " ", "\"open\"", ",", "\n",
           " ", " ", "\"dependencies\"", ":", " ", "[deps]", "\n", "}">>
    [] OTHER -> <<>>

IsJsonText(body) == Reindented(body) # <<>>

----------------------------------------------------------------------------
(* C6, C7: getWorkspaceStructure *)

WsCall == pc # "idle" /\ call.name = "clickup_get_workspace_structure"

Succeeded == Len(responses) = 1 /\ ~responses[1].isError

AllSettled == \A i \in DOMAIN got : got[i] # NoReply

\* C6: in getWorkspaceStructure a failed folder fetch is absorbed (the space is
\* assembled with folders = [] and the call still succeeds), while a failed teams,
\* spaces or lists fetch makes the whole call fail.
C6_FolderFailureAbsorbed ==
  WsCall =>
    /\ (\E i \in DOMAIN got : i[1] \in {"teams", "spaces", "lists"}
                               /\ FetchFailed(got[i]))
         => AnErrorResponse
    /\ (\A i \in DOMAIN got : FetchFailed(got[i]) => i[1] = "folders")
         => /\ ~AnErrorResponse
            /\ AllSettled => Succeeded
    /\ Succeeded =>
         \A i \in DOMAIN got :
           (i[1] = "folders" /\ FetchFailed(got[i])) =>
             responses[1].structure[i[2]].spaces[i[3]].folders = <<>>

C6_Witness ==
  /\ WsCall
  /\ Succeeded
  /\ \E i \in DOMAIN got : i[1] = "folders" /\ got[i] = TransportFailure
  /\ \E i \in DOMAIN got : i[1] = "folders" /\ got[i].kind = "http"
                            /\ got[i].status = 404

FolderFetchFailed(spaceId) ==
  \E i \in DOMAIN sent :
    sent[i].path = <<"/space/", spaceId, "/folder">> /\ FetchFailed(got[i])

\* the tree of the backend's hierarchy, written out
ExpectedSpace(spaceId) ==
  CASE spaceId = "S1" ->
         IF FolderFetchFailed("S1")
         THEN [id |-> "S1", folders |-> <<>>, lists |-> <<"L1", "L2">>]
         ELSE [id |-> "S1", folders |-> <<[id |-> "F1", lists |-> <<"L1">>]>>,
               lists |-> <<"L2">>]
    [] spaceId = "S2" ->
         IF FolderFetchFailed("S2")
         THEN [id |-> "S2", folders |-> <<>>, lists |-> <<"L3">>]
         ELSE [id |-> "S2", folders |-> <<[id |-> "F3", lists |-> <<>>]>>,
               lists |-> <<"L3">>]
    [] OTHER ->
         IF FolderFetchFailed("S3")
         THEN [id |-> "S3", folders |-> <<>>, lists |-> <<"L5", "L4">>]
         ELSE [id |-> "S3", folders |-> <<[id |-> "F2", lists |-> <<"L4">>]>>,
               lists |-> <<"L5">>]

ExpectedTree ==
  <<[id |-> "T1", spaces |-> <<ExpectedSpace("S1"), ExpectedSpace("S2")>>],
    [id |-> "T2", spaces |-> <<ExpectedSpace("S3")>>]>>

\* C7: whatever the order in which the parallel fetches complete, the structure
\* returned lists teams and spaces in the backend's order, each folder's lists under
\* the folder and each folderless list under its space.
C7_TreeIndependentOfCompletionOrder ==
  (WsCall /\ Succeeded) => responses[1].structure = ExpectedTree

C7_Witness ==
  /\ WsCall
  /\ Succeeded
  /\ settled = <<<<2, 1>>, <<1>>>>
  /\ responses[1].structure = ExpectedTree

----------------------------------------------------------------------------
(* C8: the dispatch boundary *)

\* something failed while the invocation was handled
Faulted ==
  /\ pc \in {"running", "responded"}
  /\ \/ call.name \notin CatalogTools
     \/ ~call.hasArgs /\ call.name # "clickup_get_workspace_structure"
     \/ DOMAIN sent = {}
     \/ \E i \in DOMAIN got :
          /\ i[1] # "folders"
          /\ \/ FetchFailed(got[i])
             \/ got[i].kind = "http" /\ ~IsJsonText(got[i].body)
                  /\ i[1] = "tool"

\* C8: every failure raised while handling an invocation (validation, unknown tool,
\* non-2xx, transport failure, malformed arguments) comes back as a response with
\* isError true and a text item; no invocation ends without a response.
C8_FailuresBecomeErrorResponses ==
  /\ pc = "responded" => Len(responses) = 1 /\ responses[1].text # <<>>
  /\ pc = "running" => \E i \in DOMAIN got : got[i] = NoReply
  /\ Faulted => AnErrorResponse /\ responses[1].text[1] = "Error: "

C8_Witness ==
  /\ pc = "responded"
  /\ call.name = "clickup_delete_task"
  /\ DOMAIN got = {ToolSlot}
  /\ got[ToolSlot] = TransportFailure
  /\ AnErrorResponse

----------------------------------------------------------------------------
(* C9, C10: the partial update of clickup_update_task *)

ScalarUpdateFields ==
  {"name", "description", "markdown_description", "status", "priority", "due_date",
   "time_estimate", "archived"}

\* C9: the body of the PUT holds a scalar field exactly when the caller supplied it,
\* with the caller's value; an omitted field is absent, never null.
C9_OnlySuppliedScalars ==
  Handling("clickup_update_task") =>
    \A i \in DOMAIN sent :
      /\ sent[i].method = "PUT"
      /\ sent[i].body.present
      /\ \A f \in ScalarUpdateFields :
           /\ HasKey(sent[i].body.members, f) <=> Supplied(f)
           /\ Supplied(f) => Get(sent[i].body.members, f) = call.args[f]
           /\ ~Supplied(f) =>
                \A k \in DOMAIN sent[i].body.members : sent[i].body.members[k][1] # f

C9_Witness ==
  /\ Handling("clickup_update_task")
  /\ DOMAIN sent = {ToolSlot}
  /\ Supplied("status")
  /\ Supplied("archived")
  /\ ~Supplied("name")
  /\ Keys(sent[ToolSlot].body.members) = {"status", "archived"}

CollapsedPairs ==
  {<<"assignees", "assignees_add", "assignees_rem">>, <<"tags", "tags_add", "tags_rem">>}

\* C10: the update object has `assignees` exactly when assignees_add or assignees_rem
\* is supplied, holding `add` exactly when assignees_add is and `rem` exactly when
\* assignees_rem is; likewise `tags` with tags_add / tags_rem.
C10_AddRemCollapsed ==
  Handling("clickup_update_task") =>
    \A i \in DOMAIN sent : \A g \in CollapsedPairs :
      LET m == sent[i].body.members
          o == Get(m, g[1])
      IN /\ HasKey(m, g[1]) <=> (Supplied(g[2]) \/ Supplied(g[3]))
         /\ HasKey(m, g[1]) =>
              /\ o.t = "object"
              /\ HasKey(o.m, "add") <=> Supplied(g[2])
              /\ HasKey(o.m, "rem") <=> Supplied(g[3])
              /\ Supplied(g[2]) => Get(o.m, "add") = call.args[g[2]]
              /\ Supplied(g[3]) => Get(o.m, "rem") = call.args[g[3]]

C10_Witness ==
  /\ Handling("clickup_update_task")
  /\ DOMAIN sent = {ToolSlot}
  /\ Supplied("assignees_add")
  /\ call.args["assignees_add"] = Arr(<<>>)
  /\ ~Supplied("assignees_rem")
  /\ Supplied("tags_rem")
  /\ Get(sent[ToolSlot].body.members, "assignees") = Obj(<<<<"add", Arr(<<>>)>>>>)
  /\ Get(sent[ToolSlot].body.members, "tags") = Obj(<<<<"rem", Arr(<<Str(<<"bug">>)>>)>>>>)

----------------------------------------------------------------------------
(* C11, C12: the direction of a dependency *)

\* the direction fields the request carries: members of the body of an add, query
\* parameters of a remove
DirectionsSent(req) ==
  {f \in {"depends_on", "dependency_of"} :
     \/ HasKey(req.body.members, f)
     \/ \E k \in DOMAIN req.params : req.params[k].name = <<f>>}

DependencyCall ==
  Handling("clickup_add_dependency") \/ Handling("clickup_remove_dependency")

\* C11 as stated: an add-dependency invocation with neither depends_on nor
\* dependency_of is rejected, and no dependency-creation request without a direction
\* field is sent.
C11_DirectionRequired ==
  Handling("clickup_add_dependency") =>
    /\ (~Supplied("depends_on") /\ ~Supplied("dependency_of")) =>
         DOMAIN sent = {} /\ AnErrorResponse
    /\ \A i \in DOMAIN sent : DirectionsSent(sent[i]) # {}

\* C12 as stated: every add-dependency or remove-dependency request carries exactly
\* one of depends_on / dependency_of, never both (taken here for the invocations that
\* supply a direction at all).
C12_ExactlyOneDirection ==
  (DependencyCall /\ (Supplied("depends_on") \/ Supplied("dependency_of"))) =>
    \A i \in DOMAIN sent : Cardinality(DirectionsSent(sent[i])) = 1

----------------------------------------------------------------------------
(* C13: the request of a scoped search *)

\* scope `sc` was chosen and both its own identifier and team_id were given
ScopedWithIds(sc) ==
  /\ ScopeIs(sc[1])
  /\ Supplied(sc[3]) /\ Truthy(call.args[sc[3]])
  /\ Supplied("team_id") /\ Truthy(call.args["team_id"])

OneSearchGet ==
  /\ DOMAIN sent = {ToolSlot}
  /\ sent[ToolSlot].method = "GET"
  /\ sent[ToolSlot].path = <<"/team/">> \o call.args["team_id"].s \o <<"/task">>

----------------------------------------------------------------------------
(* C14: the errors request() fails with *)

Non2xxJson(r) == r.kind = "http" /\ FetchFailed(r) /\ IsJsonText(r.body)

\* C14 as stated: a non-2xx response fails with an error carrying the numeric status,
\* the status text and the parsed body as structured data of its own, of a kind other
\* than the error of a transport failure.
C14_StructuredApiError ==
  \A i \in DOMAIN got :
    Non2xxJson(got[i]) =>
      LET e == RequestError(got[i])
      IN /\ Get(e.own, "status") = Num(got[i].status)
         /\ Get(e.own, "statusText") = Str(<<StatusText(got[i].status)>>)
         /\ Get(e.own, "body") = JSONParse(got[i].body)
         /\ e.name # RequestError(TransportFailure).name

\* C14 amended: a non-2xx response with a JSON body fails with a plain Error that holds
\* the status, the status text and the re-serialized body only inside its message and
\* has no property of its own for them; a transport failure fails with the rejection of
\* fetch(), another class of error whose message lacks the "ClickUp API error" prefix;
\* the response of a tool built from either holds only "Error: " and that message.
C14_MessageOnlyError ==
  \A i \in DOMAIN got :
    FetchFailed(got[i]) =>
      LET e == RequestError(got[i])
      IN /\ Len(e.own) = 0
         /\ Non2xxJson(got[i]) =>
              /\ e.name = "Error"
              /\ e.message =
                   <<"ClickUp API error: ", ToString(got[i].status), " ",
                     StatusText(got[i].status), "\n">> \o Reindented(got[i].body)
         /\ got[i].kind = "transport" =>
              /\ e.name # "Error"
              /\ ~Contains(e.message, <<"ClickUp API error: ">>)
         /\ i = ToolSlot =>
              /\ AnErrorResponse
              /\ responses[1].text = <<"Error: ">> \o e.message

C14_Witness ==
  /\ Handling("clickup_delete_task")
  /\ DOMAIN got = {ToolSlot}
  /\ got[ToolSlot] = HttpReply(429, <<"{", "\"err\"", ":", "\"Task not found\"", "}">>)
  /\ RequestError(got[ToolSlot]).name = "Error"
  /\ AnErrorResponse
  /\ Contains(responses[1].text, <<"ClickUp API error: ", "429", " ", "Too Many Requests">>)

----------------------------------------------------------------------------
(* C15, C16: the defaults of listTasks and searchTasks *)

\* the caller's value of filter `f`, or the default `d` when the caller gave none
CallersOr(f, d) == ToStr(IF Supplied(f) THEN call.args[f] ELSE d)

\* C15: the request of listTasks holds archived, page and include_closed exactly once
\* each, with the caller's value when supplied (false and 0 included) and otherwise
\* with archived=false, page=0, include_closed=false.
C15_ListTasksDefaults ==
  Handling("clickup_list_tasks") =>
    /\ DOMAIN sent = {ToolSlot}
    /\ ValuesNamed(sent[ToolSlot], <<"archived">>) = <<CallersOr("archived", Bool(FALSE))>>
    /\ ValuesNamed(sent[ToolSlot], <<"page">>) = <<CallersOr("page", Num(0))>>
    /\ ValuesNamed(sent[ToolSlot], <<"include_closed">>) =
         <<CallersOr("include_closed", Bool(FALSE))>>

C15_Witness ==
  /\ Handling("clickup_list_tasks")
  /\ Supplied("page") /\ call.args["page"] = Num(0)
  /\ Supplied("include_closed") /\ call.args["include_closed"] = Bool(TRUE)
  /\ ~Supplied("archived")
  /\ DOMAIN sent = {ToolSlot}
  /\ Contains(sent[ToolSlot].url,
              <<"page", "=", "0", "&", "archived", "=", "false", "&",
                "include_closed", "=", "true">>)

SearchSent == Handling("clickup_search_tasks") /\ DOMAIN sent # {}

\* C16 as stated: when the caller leaves them unset, the request of searchTasks carries
\* archived=false, page=0 and include_closed=false.
C16_SearchDefaultsAsList ==
  SearchSent =>
    /\ ValuesNamed(sent[ToolSlot], <<"archived">>) = <<<<"false">>>>
    /\ ~Supplied("page") => ValuesNamed(sent[ToolSlot], <<"page">>) = <<<<"0">>>>
    /\ ~Supplied("include_closed") =>
         ValuesNamed(sent[ToolSlot], <<"include_closed">>) = <<<<"false">>>>

\* C16 amended: the request of searchTasks always carries page and include_closed, with
\* the caller's value when supplied and otherwise page=0 and include_closed=false; it
\* never carries an archived parameter.
C16_SearchDefaultsNoArchived ==
  SearchSent =>
    /\ ValuesNamed(sent[ToolSlot], <<"page">>) = <<CallersOr("page", Num(0))>>
    /\ ValuesNamed(sent[ToolSlot], <<"include_closed">>) =
         <<CallersOr("include_closed", Bool(FALSE))>>
    /\ ValuesNamed(sent[ToolSlot], <<"archived">>) = <<>>
    /\ ~Contains(sent[ToolSlot].url, <<"archived">>)

C16_Witness ==
  /\ ScopeIs("workspace")
  /\ Supplied("team_id") /\ call.args["team_id"] = Str(<<"T1">>)
  /\ ~Supplied("page") /\ ~Supplied("include_closed")
  /\ DOMAIN sent = {ToolSlot}
  /\ sent[ToolSlot].url =
       <<"https://api.clickup.com/api/v2", "/team/", "T1", "/task", "?",
         "query", "=", "bug", "&", "page", "=", "0", "&", "include_closed", "=", "false">>

----------------------------------------------------------------------------
(* C17: a tool name outside the catalog *)

\* C17: an invocation whose name is not in the catalog, with or without arguments,
\* returns an error response whose message names the unknown tool, and issues no HTTP
\* request.
C17_UnknownToolRejected ==
  (pc \in {"running", "responded"} /\ call.name \notin CatalogTools) =>
    /\ DOMAIN sent = {}
    /\ AnErrorResponse
    /\ responses[1].text = <<"Error: ", "Unknown tool: ", call.name>>

C17_Witness ==
  /\ pc = "responded"
  /\ call.name = "clickup_archive_task"
  /\ call.hasArgs
  /\ DOMAIN sent = {}
  /\ responses = <<ErrorResponse(<<"Unknown tool: ", "clickup_archive_task">>)>>

----------------------------------------------------------------------------
(* C18: startup without a credential *)

NothingServed == pc = "idle" /\ responses = <<>> /\ DOMAIN sent = {} /\ peer = NoPeer

\* C18: with the token absent or empty the process exits at the top-level check and
\* is never connected (the client's constructor would throw on that token too): no
\* tool listing or invocation is served and no HTTP request is issued.
C18_NoCredentialNoService ==
  /\ ~Truthy(apiToken) =>
       /\ process \in {"starting", "exited"}
       /\ Constructor(apiToken).kind = "throw"
       /\ NothingServed
  /\ ~NothingServed => process = "connected" /\ Truthy(apiToken)

C18_Witness ==
  /\ apiToken = Str(<<>>)
  /\ process = "exited"
  /\ NothingServed

----------------------------------------------------------------------------
(* C19: invocations handled at once *)

Main == [pc |-> pc, call |-> call, sent |-> sent, got |-> got, responses |-> responses]

\* what the handler does for invocation `inv` of a single-request tool when nothing
\* else is going on: the request of its dispatch, the response to its own reply
RunsAlone(inv) ==
  LET d == Dispatch(inv.call.name, inv.call.hasArgs, inv.call.args)
  IN CASE d.kind = "throw" ->
            DOMAIN inv.sent = {} /\ inv.responses = <<ErrorResponse(d.message)>>
       [] d.kind = "fetch" ->
            /\ DOMAIN inv.sent = {ToolSlot}
            /\ inv.sent[ToolSlot] = d.req
            /\ inv.responses =
                 IF inv.got[ToolSlot] = NoReply THEN <<>>
                 ELSE <<ResponseAfter(inv.call.name, inv.call.args,
                                      RequestOutcome(inv.got[ToolSlot]))>>
       [] OTHER -> TRUE

\* the request getWorkspaceStructure issues in each of its slots
HierarchyRequest(slot) ==
  CASE slot[1] = "teams" -> getAuthorizedTeams
    [] slot[1] = "spaces" -> getSpaces(BackendTeams[slot[2]])
    [] slot[1] = "folders" ->
         getFoldersRequest(BackendSpaces(BackendTeams[slot[2]])[slot[3]])
    [] OTHER -> getLists(BackendSpaces(BackendTeams[slot[2]])[slot[3]])

StructureRunsAlone ==
  /\ \A slot \in DOMAIN sent : sent[slot] = HierarchyRequest(slot)
  /\ Succeeded => responses[1].structure = ExpectedTree
  /\ (\A slot \in DOMAIN got : ~Failed(got[slot]) \/ slot[1] = "folders") =>
       (responses = <<>> \/ Succeeded)

Active(inv) == inv.pc \in {"running", "responded"}

\* C19: with a second invocation in flight at any point of the first, each of the two
\* issues the requests and returns the response it would when run alone: they are
\* determined by its own name and arguments and the replies to its own requests.
C19_InvocationsIndependent ==
  /\ Active(peer) => RunsAlone(peer)
  /\ Active(Main) => IF WsCall THEN StructureRunsAlone ELSE RunsAlone(Main)

C19_Witness ==
  /\ WsCall
  /\ pc = "running"
  /\ TeamsSlot \in DOMAIN got /\ got[TeamsSlot] # NoReply
  /\ peer.pc = "running"
  /\ peer.call.name = "clickup_delete_task"
  /\ peer.sent[ToolSlot].path = <<"/task/", "xyz">>

----------------------------------------------------------------------------
(* C20: one attempt per call *)

\* an invocation of a tool other than getWorkspaceStructure is being handled
SingleCall == pc \in {"running", "responded"} /\ ~WsCall

\* C20: a tool other than getWorkspaceStructure issues exactly one HTTP request when
\* its dispatch reaches the client (none when it throws before), also after a non-2xx
\* response or a transport failure; no request of any call is issued twice.
C20_SingleAttempt ==
  /\ SingleCall =>
       /\ DOMAIN sent \subseteq {ToolSlot}
       /\ Dispatch(call.name, call.hasArgs, call.args).kind = "fetch" =>
            DOMAIN sent = {ToolSlot}
       /\ (ToolSlot \in DOMAIN got /\ FetchFailed(got[ToolSlot])) =>
            AllSettled /\ AnErrorResponse
  /\ \A a, b \in DOMAIN sent : a # b => sent[a].url # sent[b].url

C20_Witness ==
  /\ Handling("clickup_get_task")
  /\ pc = "responded"
  /\ DOMAIN sent = {ToolSlot}
  /\ got = ToolSlot :> TransportFailure
  /\ responses = <<ErrorResponse(<<"fetch failed">>)>>

----------------------------------------------------------------------------
(* C21: the catalog and the dispatcher *)

\* the response is the one of the default case
AnsweredUnknown ==
  /\ Len(responses) = 1
  /\ Len(responses[1].text) >= 2
  /\ responses[1].text[2] = "Unknown tool: "

\* C21: listing returns the twelve tools of the README's tool reference, each once;
\* an invocation of a catalog name is never answered with "Unknown tool"; the names
\* that a case of the dispatcher handles are exactly the catalog's, so an invocation is
\* answered by the default case only when its name is outside the catalog.
C21_CatalogMatchesDispatcher ==
  /\ pc = "listed" =>
       /\ Len(responses) = 1
       /\ Len(responses[1].text) = 12
       /\ {responses[1].text[i] : i \in DOMAIN responses[1].text} = ReadmeTools
       /\ \A i, j \in DOMAIN responses[1].text :
            responses[1].text[i] = responses[1].text[j] => i = j
       /\ \A i \in DOMAIN responses[1].text :
            Dispatch(responses[1].text[i], TRUE, EmptyBag) # DefaultCase(responses[1].text[i])
  /\ pc \in {"running", "responded"} =>
       /\ call.name \in CatalogTools <=> call.name \in DispatcherCases
       /\ call.name \in CatalogTools => ~AnsweredUnknown
       /\ (pc = "responded" /\ call.name \notin CatalogTools) => AnsweredUnknown
  /\ DispatcherCases = CatalogTools

C21_Witness ==
  /\ pc = "responded"
  /\ call.name = "clickup_list_dependencies"
  /\ call.hasArgs
  /\ DOMAIN got = {ToolSlot}
  /\ got[ToolSlot].kind = "http" /\ got[ToolSlot].status = 200
  /\ ~AnsweredUnknown
  /\ ~AnErrorResponse

----------------------------------------------------------------------------
(* C22: the method and the path of each domain operation *)

\* the operations table: the method of the operation behind each tool
TableMethod(name) ==
  CASE name \in {"clickup_create_task", "clickup_add_comment", "clickup_add_dependency"} ->
         "POST"
    [] name = "clickup_update_task" -> "PUT"
    [] name \in {"clickup_delete_task", "clickup_remove_dependency"} -> "DELETE"
    [] OTHER -> "GET"

\* the operations table: the path, with the identifier the handler passes filled in
\* as the template literal writes it
TablePath(name, args) ==
  CASE name \in {"clickup_create_task", "clickup_list_tasks"} ->
         <<"/list/">> \o ToStr(Arg(args, "list_id")) \o <<"/task">>
    [] name = "clickup_search_tasks" ->
         <<"/team/">> \o ToStr(Arg(args, "team_id")) \o <<"/task">>
    [] name \in {"clickup_add_comment", "clickup_list_comments"} ->
         <<"/task/">> \o ToStr(Arg(args, "task_id")) \o <<"/comment">>
    [] name \in {"clickup_add_dependency", "clickup_remove_dependency"} ->
         <<"/task/">> \o ToStr(Arg(args, "task_id")) \o <<"/dependency">>
    [] OTHER -> <<"/task/">> \o ToStr(Arg(args, "task_id"))

\* tools whose operation sends a JSON body
BodyTools ==
  {"clickup_create_task", "clickup_update_task", "clickup_add_comment",
   "clickup_add_dependency"}

\* a single-request tool has called its operation of the client
OperationCalled ==
  /\ pc \in {"running", "responded"}
  /\ call.hasArgs
  /\ ToolSlot \in DOMAIN sent

\* C22: each domain operation issues the method and the path of the operations table;
\* addDependency sends the supplied direction as a member of the body and no query
\* parameter, deleteDependency sends it as a query parameter and sends no body.
C22_MethodAndPath ==
  OperationCalled =>
    LET r == sent[ToolSlot]
    IN /\ r.method = TableMethod(call.name)
       /\ r.path = TablePath(call.name, call.args)
       /\ r.body.present <=> call.name \in BodyTools
       /\ call.name = "clickup_add_dependency" =>
            /\ r.params = <<>>
            /\ \A f \in {"depends_on", "dependency_of"} :
                 Supplied(f) => Get(r.body.members, f) = call.args[f]
       /\ call.name = "clickup_remove_dependency" =>
            /\ r.body = NoBody
            /\ \A f \in {"depends_on", "dependency_of"} :
                 Supplied(f) => ValuesNamed(r, <<f>>) = <<call.args[f].s>>

C22_Witness ==
  /\ Handling("clickup_remove_dependency")
  /\ Supplied("depends_on")
  /\ ~Supplied("dependency_of")
  /\ DOMAIN sent = {ToolSlot}
  /\ sent[ToolSlot].method = "DELETE"
  /\ ~sent[ToolSlot].body.present
  /\ sent[ToolSlot].url =
       <<"https://api.clickup.com/api/v2", "/task/", "abc", "/dependency", "?",
         "depends_on", "=", "dep1">>

----------------------------------------------------------------------------
(* C23: the folderless lists of a space *)

\* the identifiers of the lists under the folders of a space of the structure
UnderFolders(space) ==
  UNION {{space.folders[f].lists[k] : k \in DOMAIN space.folders[f].lists} :
           f \in DOMAIN space.folders}

\* the spaces of the structure returned
SpacesReturned ==
  UNION {{responses[1].structure[t].spaces[s] : s \in DOMAIN responses[1].structure[t].spaces} :
           t \in DOMAIN responses[1].structure}

\* C23: for every space of the structure, `lists` is the sequence the space-lists fetch
\* returned, in its order, without the lists whose identifier occurs under one of the
\* space's folders; no identifier is both under a folder and in `lists` of one space.
C23_FolderlessBySubtraction ==
  (WsCall /\ Succeeded) =>
    \A space \in SpacesReturned :
      /\ space.lists =
           SelectSeq(BackendLists(space.id), LAMBDA l : l \notin UnderFolders(space))
      /\ {space.lists[k] : k \in DOMAIN space.lists} \cap UnderFolders(space) = {}

C23_Witness ==
  /\ WsCall
  /\ Succeeded
  /\ ~FolderFetchFailed("S1")
  /\ responses[1].structure[1].spaces[1].id = "S1"
  /\ responses[1].structure[1].spaces[1].folders = <<[id |-> "F1", lists |-> <<"L1">>]>>
  /\ responses[1].structure[1].spaces[1].lists = <<"L2">>

----------------------------------------------------------------------------
(* C24: scalar query parameters *)

\* the scalar properties of the object each tool hands to request() as queryParams
ScalarQueryFields(name) ==
  CASE name = "clickup_list_tasks" ->
         {"page", "archived", "include_closed", "due_date_gt", "due_date_lt"}
    [] name = "clickup_search_tasks" ->
         {"query", "page", "include_closed", "due_date_gt", "due_date_lt"}
    [] name = "clickup_remove_dependency" -> {"depends_on", "dependency_of"}
    [] OTHER -> {}

\* the value request() finds under `f`: the caller's, or the client's default
QueryValue(f) ==
  IF f \in {"page", "include_closed"}
       \/ (f = "archived" /\ call.name = "clickup_list_tasks")
  THEN Coalesce(Arg(call.args, f), IF f = "page" THEN Num(0) ELSE Bool(FALSE))
  ELSE Arg(call.args, f)

\* C24: a query parameter whose value is undefined or null is omitted entirely from
\* the request and its URL; every scalar parameter with a defined value, false and 0
\* included, is appended exactly once, as its string.
C24_ScalarsOnceNullsOmitted ==
  /\ OperationCalled =>
       \A f \in ScalarQueryFields(call.name) :
         IF QueryValue(f) \in {Undef, Null}
         THEN /\ ValuesNamed(sent[ToolSlot], <<f>>) = <<>>
              /\ ~Contains(sent[ToolSlot].url, <<f>>)
         ELSE /\ ValuesNamed(sent[ToolSlot], <<f>>) = <<ToStr(QueryValue(f))>>
              /\ Contains(sent[ToolSlot].url, <<f, "=">> \o FormEncode(ToStr(QueryValue(f))))
  /\ \A slot \in DOMAIN sent :
       slot[1] = "folders" => ValuesNamed(sent[slot], <<"archived">>) = <<<<"false">>>>

C24_Witness ==
  /\ Handling("clickup_list_tasks")
  /\ Supplied("due_date_gt") /\ call.args["due_date_gt"] = Null
  /\ Supplied("page") /\ call.args["page"] = Num(0)
  /\ DOMAIN sent = {ToolSlot}
  /\ sent[ToolSlot].url =
       <<"https://api.clickup.com/api/v2", "/list/", "901234567", "/task", "?",
         "page", "=", "0", "&", "archived", "=", "false", "&",
         "include_closed", "=", "false">>

----------------------------------------------------------------------------
(* C25: the result of clickup_list_dependencies *)

\* the members of a text written by JSON.stringify(object, null, 2), in its order
TextMembers(text) ==
  LET at == SelectSeq([i \in 1..Len(text) |-> i],
                      LAMBDA i : i + 3 <= Len(text) /\ text[i + 1] = ":")
  IN [k \in 1..Len(at) |-> <<text[at[k]], text[at[k] + 3]>>]

\* the task the tool fetched
FetchedTask == JSONParse(got[ToolSlot].body)

\* the value of the task under `key`, or the empty list
MemberOrEmpty(key) ==
  IF Member(FetchedTask, key) = "undefined" THEN "[]" ELSE Member(FetchedTask, key)

ListedDependencies ==
  /\ Handling("clickup_list_dependencies")
  /\ pc = "responded"
  /\ Succeeded

----------------------------------------------------------------------------
(* C26: one response per invocation, and the dispatcher goes on *)

\* the fetches of this invocation that failed
FailedFetches == {slot \in DOMAIN got : Failed(got[slot])}

\* C26: an invocation that awaits a fetch is answered in the end, given that every
\* fetch settles; the answer is one response and it stays the one, also when several
\* fetches of getWorkspaceStructure fail; the invocation that follows an error
\* response issues its requests and gets its response as on a fresh server.
C26_OneResponseEventually ==
  /\ [](pc = "responded" => Len(responses) = 1)
  /\ [][(responses # <<>> /\ pc' # "idle") => responses' = responses]_vars
  /\ (pc = "running") ~> (pc = "responded")
  /\ []((afterError /\ Active(Main)) =>
          IF WsCall THEN StructureRunsAlone ELSE RunsAlone(Main))

C26_Witness ==
  /\ afterError
  /\ WsCall
  /\ pc = "responded"
  /\ Cardinality({slot \in FailedFetches : slot[1] = "lists"}) = 2
  /\ AllSettled
  /\ Len(responses) = 1
  /\ responses[1].isError

----------------------------------------------------------------------------
(* C27: the order and the number of the fetches of getWorkspaceStructure *)

\* the fetch in `slot` has settled with a result
Fulfilled(slot) ==
  slot \in DOMAIN got /\ got[slot] # NoReply /\ RequestOutcome(got[slot]).ok

\* the fetch in `slot` has settled, one way or the other
HasSettled(slot) == slot \in DOMAIN got /\ got[slot] # NoReply

RECURSIVE SpacesIn(_)
SpacesIn(teams) ==
  IF teams = <<>> THEN 0 ELSE Len(Head(teams).spaces) + SpacesIn(Tail(teams))

\* C27: in getWorkspaceStructure the spaces of a team are requested only after the
\* teams fetch succeeded, the folders of a space only after the spaces fetch of its
\* team succeeded, and the lists of a space only after the folder fetch of that space
\* has settled; a run in which every fetch succeeds over T teams and S spaces in total
\* issues exactly 1 + T + 2*S requests.
C27_FetchOrderAndCount ==
  WsCall =>
    /\ \A slot \in DOMAIN sent :
         /\ slot[1] = "spaces" => Fulfilled(TeamsSlot)
         /\ slot[1] = "folders" => Fulfilled(SpacesSlot(slot[2]))
         /\ slot[1] = "lists" =>
              /\ FoldersSlot(slot[2], slot[3]) \in DOMAIN sent
              /\ HasSettled(FoldersSlot(slot[2], slot[3]))
    /\ \A slot \in DOMAIN sent :
         (slot[1] = "folders" /\ ~HasSettled(slot)) =>
           ListsSlot(slot[2], slot[3]) \notin DOMAIN sent
    /\ (Succeeded /\ \A slot \in DOMAIN got : Fulfilled(slot)) =>
         Cardinality(DOMAIN sent) =
           1 + Len(responses[1].structure) + 2 * SpacesIn(responses[1].structure)

C27_Witness ==
  /\ WsCall
  /\ Succeeded
  /\ \A slot \in DOMAIN got : Fulfilled(slot)
  /\ Len(responses[1].structure) = 2
  /\ SpacesIn(responses[1].structure) = 3
  /\ Cardinality(DOMAIN sent) = 9

----------------------------------------------------------------------------
(* C28: the lists of a space whose folder fetch failed *)

\* C28: when the folder fetch of a space failed and was absorbed, the space is returned
\* with no folder, and its `lists` is the whole sequence its list fetch returned: no
\* list is dropped and none is under a folder.
C28_AllListsWhenFoldersFail ==
  (WsCall /\ Succeeded) =>
    \A slot \in DOMAIN got :
      (slot[1] = "folders" /\ Failed(got[slot])) =>
        LET space == responses[1].structure[slot[2]].spaces[slot[3]]
        IN /\ space.folders = <<>>
           /\ space.lists = BackendLists(space.id)
           /\ Fulfilled(ListsSlot(slot[2], slot[3]))

C28_Witness ==
  /\ WsCall
  /\ Succeeded
  /\ got[FoldersSlot(1, 1)] = HttpReply(404, BodyCompact)
  /\ responses[1].structure[1].spaces[1] =
       [id |-> "S1", folders |-> <<>>, lists |-> <<"L1", "L2">>]

----------------------------------------------------------------------------
(* C29: the body is parsed before the status is looked at *)

\* the reply has a body that response.json() rejects: empty, or not a JSON text
Unparsable(r) == r.kind = "http" /\ JSONParse(r.body) = JsonFail

\* the message says nothing of the reply: not its status, not its body
SilentAbout(message, r) ==
  /\ ~Contains(message, <<ToString(r.status)>>)
  /\ ~Contains(message, <<"ClickUp API error: ">>)
  /\ r.body # <<>> => ~Contains(message, r.body)

----------------------------------------------------------------------------
(* C30: the scope arrays of a search *)

\* the scope arrays the request carries, under the bare key or the key with "[]"
ScopeArraysSent(req) ==
  {sc \in ScopeArrays :
     \E k \in DOMAIN req.params :
       req.params[k].name \in {<<sc[2]>>, <<sc[2], "[", "]">>}}

\* the scope array the caller's `scope` selects, if any
ScopeSelected == {sc \in ScopeArrays : call.args["scope"] = Str(<<sc[1]>>)}

KnownScopes == {Str(<<"workspace">>), Str(<<"space">>), Str(<<"folder">>), Str(<<"list">>)}

\* C30: a request of clickup_search_tasks carries at most one of the scope arrays
\* space_ids, folder_ids and list_ids (each sent under its key with the "[]" suffix),
\* the one `scope` selects, holding the identifier of that scope alone: none with scope
\* workspace whatever identifiers the caller supplied, and with another scope nothing
\* of the identifiers of the scopes not selected; a scope outside workspace, space,
\* folder and list gives an error response and no request.
C30_OnlySelectedScopeArray ==
  Handling("clickup_search_tasks") =>
    /\ \A slot \in DOMAIN sent :
         /\ Cardinality(ScopeArraysSent(sent[slot])) <= 1
         /\ ScopeArraysSent(sent[slot]) = ScopeSelected
         /\ \A sc \in ScopeArrays \ ScopeSelected :
              ~Contains(sent[slot].url, <<sc[2]>>)
         /\ \A sc \in ScopeSelected :
              ValuesNamed(sent[slot], <<sc[2], "[", "]">>) = <<ToStr(call.args[sc[3]])>>
    /\ call.args["scope"] \notin KnownScopes =>
         /\ DOMAIN sent = {}
         /\ AnErrorResponse
         /\ responses[1].text = <<"Error: ", "Invalid scope: ">> \o call.args["scope"].s

C30_Witness ==
  /\ ScopeIs("workspace")
  /\ Supplied("team_id") /\ call.args["team_id"] = Str(<<"T1">>)
  /\ Supplied("space_id") /\ call.args["space_id"] = Str(<<"S1">>)
  /\ DOMAIN sent = {ToolSlot}
  /\ ScopeArraysSent(sent[ToolSlot]) = {}
  /\ ~Contains(sent[ToolSlot].url, <<"S1">>)

====
